---- MODULE Spec2Model ----
(***************************************************************************)
(* Model of mark_duplicates_and_insert_sizes_for_TSO500_ichorCNA.py:       *)
(* the scaffold partition planner, the worker processes, the collector of  *)
(* the workers' pipes, the ordering/concatenation/relocation steps and the *)
(* bounded wait for the insert size metrics process.                       *)
(*                                                                         *)
(* Strings that the code splits or takes apart (scaffold names, file       *)
(* names) are sequences of tokens: "HLA-A" is <<"HLA", "-", "A">> and     *)
(* "x.markdup-chr1.bam" is <<"x", ".", "markdup", "-", "chr1", ".", "bam">>*)
(***************************************************************************)
EXTENDS Integers, Sequences, FiniteSets, TLC

\* ------------------------------------------------------------ bounds
\* scaffolds in a header of the pipeline specification
MaxScaffolds == 3
\* largest LN: value of a header entry of the pipeline specification
MaxLength == 1
\* largest value given to --processes in the pipeline specification (the smallest is 1)
MaxRequested == 3
\* scaffolds, lengths and worker counts of the planner specification
MaxPlanScaffolds == 5
MaxPlanLength == 2
MaxPlanWorkers == 3
\* max_wait_minutes of wait_for_insert_metrics (a parameter; 180 by default)
MaxWaitMinutes == 1
\* largest value given to --processes in the specification of the clamp
MaxClampRequested == 50

\* ------------------------------------------------------------ constants
MinProcesses == 2
MaxProcesses == 24
SleepSeconds == 10
SecondsPerMinute == 60
MateFixingExitStatus == 3

VARIABLES
  in_args,                \* in_args.parallel_processes: the value given to --processes
  header,                 \* the @SQ lines of the input: <<[name, len], ...>>
  parallel_processes,     \* worker count after the clamp of __main__
  pc,                     \* position of the orchestrating process
  exit_status,            \* -1 while running, else the exit status of the process
  raised,                 \* "" or the exception/exit cause that ended the process
  insert_proc,            \* insert size metrics process: "none", "running", "exited0", ...
  wait_time,              \* wait_time of wait_for_insert_metrics
  reference_names,        \* catalog: scaffold names in header order
  ref_dict,               \* catalog: name -> length
  optimal_split_length,
  descending_length_tuples,
  scaff_idx,
  worker_scaffold_lists,
  worker_scaffolds_cumulative_sums,
  worker_pc,              \* per worker: "unstarted", "running", "closed"
  created_files,          \* per worker: created_files of the worker
  invoked,                \* per worker: scaffolds whose marking command was run, in order
  sent,                   \* per pipe: the outcomes sent on it, in order
  conn_closed,            \* per pipe: sending end closed
  first_reporter,         \* -1, or the worker that was the first to send its outcome
  received_scaffold_files,
  recv_count,             \* per pipe: recv() calls of the collector that returned
  reported_failures,      \* -1, or the count printed at line 170
  ordered_scaffold_paths,
  concat_rc, index_rc, rsync_rc,   \* -1 before the command ran, else its return code
  scaffold_dirs,          \* per-scaffold temporary directories that exist
  local_files,            \* concatenated BAM and index in the temporary directory
  output_dir              \* artifacts of this run in the output directory

planvars == <<reference_names, ref_dict, optimal_split_length, descending_length_tuples,
              scaff_idx, worker_scaffold_lists, worker_scaffolds_cumulative_sums>>
workervars == <<worker_pc, created_files, invoked, sent, conn_closed,
                first_reporter, scaffold_dirs>>
collectvars == <<received_scaffold_files, recv_count, reported_failures>>
finishvars == <<ordered_scaffold_paths, concat_rc, index_rc, rsync_rc, local_files, output_dir>>
metricsvars == <<insert_proc, wait_time>>
vars == <<in_args, header, parallel_processes, pc, exit_status, raised, planvars, workervars,
          collectvars, finishvars, metricsvars>>

\* ------------------------------------------------------------ helpers
Range(s) == {s[i] : i \in 1..Len(s)}

Min(S) == CHOOSE x \in S : \A y \in S : x <= y

Max(S) == CHOOSE x \in S : \A y \in S : x >= y

RECURSIVE SumLens(_)
SumLens(tuples) ==
  IF tuples = <<>> THEN 0 ELSE Head(tuples).len + SumLens(Tail(tuples))

\* the argument 'processes' of mark_duplicates_with_mate_cigar_parallel
processes == parallel_processes

Workers == 0..(processes - 1)

\* ------------------------------------------------------------ names
PlainName(i) == <<"chr", ToString(i)>>

DashName == <<"HLA", "-", "A">>

ClampToWarnedMaximum(requested) ==
  IF requested > MaxProcesses THEN 32
  ELSE IF requested < MinProcesses THEN MinProcesses
  ELSE requested

\* lines 457-464: the clamp of --processes
ClampProcesses(requested) ==
  IF requested > MaxProcesses THEN MaxProcesses
  ELSE IF requested < MinProcesses THEN MinProcesses
  ELSE requested

\* ------------------------------------------------------------ catalog
\* lines 127-132: an entry is kept when its name and its int(length) are truthy
EntryKept(e) == e.name # <<>> /\ e.len # 0

ParsedEntries(h) == SelectSeq(h, EntryKept)

ParsedNames(h) == [i \in 1..Len(ParsedEntries(h)) |-> ParsedEntries(h)[i].name]

\* ref_dict.update in header order: the last entry of a name wins
ParsedDict(h) ==
  [n \in Range(ParsedNames(h)) |->
     LET idxs == {i \in 1..Len(ParsedEntries(h)) : ParsedEntries(h)[i].name = n}
     IN ParsedEntries(h)[Max(idxs)].len]

RECURSIVE SumDict(_, _)
SumDict(d, names) ==
  IF names = {} THEN 0
  ELSE LET n == CHOOSE x \in names : TRUE IN d[n] + SumDict(d, names \ {n})

\* ------------------------------------------------------------ planner
\* line 138: zip(reference_names, lengths)
ZippedTuples(names, d) == [i \in 1..Len(names) |-> [name |-> names[i], len |-> d[names[i]]]]

InsertBeforeEqual(sorted, t) ==
  LET before == {i \in 1..Len(sorted) : sorted[i].len > t.len}
      k == IF before = {} THEN 0 ELSE Max(before)
  IN SubSeq(sorted, 1, k) \o <<t>> \o SubSeq(sorted, k + 1, Len(sorted))

\* insertion that keeps the sort stable: t goes after every tuple at least as long
InsertDescending(sorted, t) ==
  LET before == {i \in 1..Len(sorted) : sorted[i].len >= t.len}
      k == IF before = {} THEN 0 ELSE Max(before)
  IN SubSeq(sorted, 1, k) \o <<t>> \o SubSeq(sorted, k + 1, Len(sorted))

RECURSIVE SortedDescending(_)
\* line 138-139: sorted(..., key=length, reverse=True), a stable sort
SortedDescending(tuples) ==
  IF tuples = <<>> THEN <<>>
  ELSE InsertDescending(SortedDescending(SubSeq(tuples, 1, Len(tuples) - 1)),
                        tuples[Len(tuples)])

FitsNaiveTargetOrEqual(sum, length, target) == sum + length <= target

\* line 142: the naive (cyclic) target is a valid choice
FitsNaiveTarget(sum, length, target) == sum + length < target

FirstWorker(sums) == 0

\* line 146: sums.index(min(sums)): the first index holding the minimum
ShortestListIndex(sums) ==
  Min({w \in DOMAIN sums : sums[w] = Min({sums[v] : v \in DOMAIN sums})})

OverwriteScaffold(lists, w, name) == [lists EXCEPT ![w] = <<name>>]

\* lines 143/147: worker_scaffold_lists[w].append(scaffold_name)
AppendScaffold(lists, w, name) == [lists EXCEPT ![w] = Append(@, name)]

\* lines 142-148: the worker that gets the scaff_idx-th tuple of the walk
ChosenWorker(idx, sums, length, target) ==
  IF FitsNaiveTarget(sums[idx % processes], length, target)
  THEN idx % processes
  ELSE ShortestListIndex(sums)

\* one iteration of the loop of lines 140-148 (scaff_idx counts from 0)
PlanStep ==
  /\ pc = "planning"
  /\ scaff_idx < Len(descending_length_tuples)
  /\ LET t == descending_length_tuples[scaff_idx + 1]
         w == ChosenWorker(scaff_idx, worker_scaffolds_cumulative_sums, t.len,
                           optimal_split_length)
     IN /\ worker_scaffold_lists' = AppendScaffold(worker_scaffold_lists, w, t.name)
        /\ worker_scaffolds_cumulative_sums' =
             [worker_scaffolds_cumulative_sums EXCEPT ![w] = @ + t.len]
  /\ scaff_idx' = scaff_idx + 1
  /\ pc' = IF scaff_idx + 1 = Len(descending_length_tuples) THEN "spawn" ELSE "planning"
  /\ UNCHANGED <<in_args, header, parallel_processes, exit_status, raised, reference_names,
                 ref_dict, optimal_split_length, descending_length_tuples, workervars,
                 collectvars, finishvars, metricsvars>>

\* ------------------------------------------------------------ paths
\* input_bam.stem, as in the sample of the comment at line 383
SampleStem == <<"L186_1", "-", "ONC_tumor">>

\* lines 467-468: f"{input_bam.stem}.markdup.bam" and ".markdup.metrics"
OutputBamName == SampleStem \o <<".", "markdup", ".", "bam">>

OutputMetricsName == SampleStem \o <<".", "markdup", ".", "metrics">>

\* pathlib's stem: the name without its last suffix
PathStem(name) ==
  LET dots == {i \in 1..Len(name) : name[i] = "."}
  IN IF dots = {} \/ Max(dots) = 1 \/ Max(dots) = Len(name) THEN name
     ELSE SubSeq(name, 1, Max(dots) - 1)

\* str.split(sep)[-1]: what follows the last separator
SplitLast(tokens, sep) ==
  LET seps == {i \in 1..Len(tokens) : tokens[i] = sep}
  IN IF seps = {} THEN tokens ELSE SubSeq(tokens, Max(seps) + 1, Len(tokens))

\* line 307: temp_dir / f'{scaffold}-{randint(0, 9999999):07}'; the random suffix is
\* left out: the directory is named after its scaffold
ScaffoldDir(scaffold) == scaffold

\* line 309
ScaffoldOutputBam(scaffold) ==
  [dir |-> ScaffoldDir(scaffold),
   name |-> PathStem(OutputBamName) \o <<"-">> \o scaffold \o <<".", "bam">>]

\* lines 310-311
ScaffoldMetricsFile(scaffold) ==
  [dir |-> ScaffoldDir(scaffold),
   name |-> PathStem(OutputMetricsName) \o <<"-">> \o scaffold
              \o <<".", SplitLast(OutputMetricsName, ".")[1]>>]

\* an element of created_files: a tuple of two paths, or None
NoneEntry == [kind |-> "None"]

FilesEntry(scaffold) ==
  [kind |-> "files", bam |-> ScaffoldOutputBam(scaffold),
   metrics |-> ScaffoldMetricsFile(scaffold)]

\* what travels on a pipe: None, or a list of entries
NoneOutcome == [kind |-> "None"]

ListOutcome(entries) == [kind |-> "list", items |-> entries]

\* subprocess' check_returncode(): no exception
AnyReturnCode(rc) == TRUE

ReturnCodeOk(rc) == rc = 0

ReturnCodes == {0, 1}

\* ------------------------------------------------------------ initial states
Header(k, lens, dashAt) ==
  [i \in 1..k |-> [name |-> IF i = dashAt THEN DashName ELSE PlainName(i), len |-> lens[i]]]

\* headers of up to MaxScaffolds entries with lengths 0..MaxLength; the names are
\* chr1, chr2, ..., or HLA-A (a name holding the '-' character) in the first place
Headers ==
  UNION {{Header(k, lens, d) : lens \in [1..k -> 0..MaxLength], d \in {0, 1} \cap (0..k)}
         : k \in 0..MaxScaffolds}

\* section 8 of the specification: lengths [100, 90, 60, 50]
ExampleHeader ==
  <<[name |-> PlainName(1), len |-> 100], [name |-> PlainName(2), len |-> 90],
    [name |-> PlainName(3), len |-> 60], [name |-> PlainName(4), len |-> 50]>>

PlanHeaders ==
  UNION {{Header(k, lens, 0) : lens \in [1..k -> 1..MaxPlanLength]}
         : k \in 0..MaxPlanScaffolds} \cup {ExampleHeader}

NoWorkerState ==
  /\ worker_pc = [w \in Workers |-> "unstarted"]
  /\ created_files = [w \in Workers |-> <<>>]
  /\ invoked = [w \in Workers |-> <<>>]
  /\ sent = [w \in Workers |-> <<>>]
  /\ conn_closed = [w \in Workers |-> FALSE]
  /\ first_reporter = -1
  /\ scaffold_dirs = {}
  /\ received_scaffold_files = <<>>
  /\ recv_count = [w \in Workers |-> 0]
  /\ reported_failures = -1
  /\ ordered_scaffold_paths = <<>>
  /\ concat_rc = -1 /\ index_rc = -1 /\ rsync_rc = -1
  /\ local_files = {}
  /\ output_dir = {}
  /\ exit_status = -1
  /\ raised = ""
  /\ wait_time = 0

Init ==
  /\ header \in Headers
  /\ in_args \in 1..MaxRequested
  /\ parallel_processes = ClampProcesses(in_args)
  /\ pc = "main"
  /\ insert_proc = "none"
  /\ reference_names = <<>>
  /\ ref_dict = <<>>
  /\ optimal_split_length = 0
  /\ descending_length_tuples = <<>>
  /\ scaff_idx = 0
  /\ worker_scaffold_lists = [w \in Workers |-> <<>>]
  /\ worker_scaffolds_cumulative_sums = [w \in Workers |-> 0]
  /\ NoWorkerState

\* the state in which the loop of line 140 is entered, for a catalog and a worker count
InitPlan ==
  /\ header \in PlanHeaders
  /\ parallel_processes \in 1..MaxPlanWorkers
  /\ in_args = parallel_processes
  /\ insert_proc = "running"
  /\ reference_names = ParsedNames(header)
  /\ ref_dict = ParsedDict(header)
  /\ optimal_split_length = SumDict(ParsedDict(header), DOMAIN ParsedDict(header)) \div processes
  /\ descending_length_tuples =
       SortedDescending(ZippedTuples(ParsedNames(header), ParsedDict(header)))
  /\ pc = IF ParsedNames(header) = <<>> THEN "spawn" ELSE "planning"
  /\ scaff_idx = 0
  /\ worker_scaffold_lists = [w \in Workers |-> <<>>]
  /\ worker_scaffolds_cumulative_sums = [w \in Workers |-> 0]
  /\ NoWorkerState

\* line 456: the state in which the clamp of lines 457-464 is entered; no catalog,
\* plan or worker exists yet
InitClamp ==
  /\ in_args \in 0..MaxClampRequested
  /\ parallel_processes = in_args
  /\ header = ExampleHeader
  /\ pc = "clamp"
  /\ insert_proc = "none"
  /\ reference_names = <<>>
  /\ ref_dict = <<>>
  /\ optimal_split_length = 0
  /\ descending_length_tuples = <<>>
  /\ scaff_idx = 0
  /\ worker_scaffold_lists = <<>>
  /\ worker_scaffolds_cumulative_sums = <<>>
  /\ worker_pc = <<>>
  /\ created_files = <<>>
  /\ invoked = <<>>
  /\ sent = <<>>
  /\ conn_closed = <<>>
  /\ first_reporter = -1
  /\ scaffold_dirs = {}
  /\ received_scaffold_files = <<>>
  /\ recv_count = <<>>
  /\ reported_failures = -1
  /\ ordered_scaffold_paths = <<>>
  /\ concat_rc = -1 /\ index_rc = -1 /\ rsync_rc = -1
  /\ local_files = {}
  /\ output_dir = {}
  /\ exit_status = -1
  /\ raised = ""
  /\ wait_time = 0

\* lines 457-464
ClampWorkers ==
  /\ pc = "clamp"
  /\ parallel_processes' = ClampProcesses(parallel_processes)
  /\ pc' = "main"
  /\ UNCHANGED <<in_args, header, exit_status, raised, planvars, workervars, collectvars,
                 finishvars, metricsvars>>

\* ------------------------------------------------------------ __main__, first steps
\* the exit status of the script for each way it ends early: exit(3) at line 106,
\* exit(1) at lines 172, 203, 222, 243, 295 and 434; an exception that nothing
\* catches (lines 126, 166, 173, 194, 421) ends the interpreter with status 1
ExitStatusOf(reason) ==
  IF reason = "exit: mate fixing" THEN MateFixingExitStatus ELSE 1

\* lines 470-472: the insert size metrics process is started (Popen)
StartInsertMetrics ==
  /\ pc = "main"
  /\ insert_proc' = "running"
  /\ pc' = "mate_fixing"
  /\ UNCHANGED <<in_args, header, parallel_processes, exit_status, raised, wait_time, planvars,
                 workervars, collectvars, finishvars>>

\* lines 98-111
MateFixing ==
  /\ pc = "mate_fixing"
  /\ \E rc \in ReturnCodes :
       IF ReturnCodeOk(rc)
       THEN /\ pc' = "read_catalog"
            /\ UNCHANGED <<exit_status, raised>>
       ELSE /\ pc' = "failed"
            /\ exit_status' = ExitStatusOf("exit: mate fixing")
            /\ raised' = "exit: mate fixing"
  /\ UNCHANGED <<in_args, header, parallel_processes, planvars, workervars, collectvars,
                 finishvars, metricsvars>>

\* lines 114-139: the header is read, parsed and sorted
ReadCatalog ==
  /\ pc = "read_catalog"
  /\ \E rc \in ReturnCodes :
       IF ReturnCodeOk(rc)
       THEN /\ reference_names' = ParsedNames(header)
            /\ ref_dict' = ParsedDict(header)
            /\ optimal_split_length' =
                 SumDict(ParsedDict(header), DOMAIN ParsedDict(header)) \div processes
            /\ descending_length_tuples' =
                 SortedDescending(ZippedTuples(ParsedNames(header), ParsedDict(header)))
            /\ pc' = IF ParsedNames(header) = <<>> THEN "spawn" ELSE "planning"
            /\ UNCHANGED <<exit_status, raised>>
       ELSE /\ pc' = "failed"
            /\ exit_status' = ExitStatusOf("SubprocessError")
            /\ raised' = "SubprocessError"
            /\ UNCHANGED <<reference_names, ref_dict, optimal_split_length,
                           descending_length_tuples>>
  /\ UNCHANGED <<in_args, header, parallel_processes, scaff_idx, worker_scaffold_lists,
                 worker_scaffolds_cumulative_sums, workervars, collectvars, finishvars,
                 metricsvars>>

\* ------------------------------------------------------------ workers
\* line 156: the sending end handed to worker w_idx
ParentConnection(w) == w

\* lines 150-162: one pipe per worker; the workers are created and started
SpawnWorkers ==
  /\ pc = "spawn"
  /\ worker_pc' = [w \in Workers |-> "running"]
  /\ pc' = "collecting"
  /\ UNCHANGED <<in_args, header, parallel_processes, exit_status, raised, planvars,
                 created_files, invoked, sent, conn_closed, first_reporter, scaffold_dirs,
                 collectvars, finishvars, metricsvars>>

NeverBreaks(created) == TRUE

\* line 395: the loop over the scaffolds goes on as long as nothing failed (break)
LoopContinues(created) == NoneEntry \notin Range(created)

\* lines 306-395: one iteration of the worker's loop, the marking command included
MarkScaffold(w) ==
  /\ worker_pc[w] = "running"
  /\ Len(invoked[w]) < Len(worker_scaffold_lists[w])
  /\ LoopContinues(created_files[w])
  /\ LET scaffold == worker_scaffold_lists[w][Len(invoked[w]) + 1]
     IN /\ scaffold_dirs' = scaffold_dirs \cup {ScaffoldDir(scaffold)}
        /\ invoked' = [invoked EXCEPT ![w] = Append(@, scaffold)]
        /\ \E rc \in ReturnCodes :
             created_files' =
               [created_files EXCEPT
                  ![w] = Append(@, IF ReturnCodeOk(rc) THEN FilesEntry(scaffold)
                                   ELSE NoneEntry)]
  /\ UNCHANGED <<in_args, header, parallel_processes, pc, exit_status, raised, planvars,
                 worker_pc, sent, conn_closed, first_reporter, collectvars, finishvars,
                 metricsvars>>

AlwaysTheList(created) == ListOutcome(created)

\* lines 396-399: what the worker sends
WorkerOutcome(created) ==
  IF NoneEntry \in Range(created) THEN NoneOutcome ELSE ListOutcome(created)

SendOnlyOnSuccess(w) ==
  /\ worker_pc[w] = "running"
  /\ Len(invoked[w]) = Len(worker_scaffold_lists[w])
  /\ LoopContinues(created_files[w])
  /\ sent' = [sent EXCEPT ![ParentConnection(w)] = Append(@, WorkerOutcome(created_files[w]))]
  /\ conn_closed' = [conn_closed EXCEPT ![ParentConnection(w)] = TRUE]
  /\ first_reporter' = IF first_reporter = -1 THEN w ELSE first_reporter
  /\ worker_pc' = [worker_pc EXCEPT ![w] = "closed"]
  /\ UNCHANGED <<in_args, header, parallel_processes, pc, exit_status, raised, planvars,
                 created_files, invoked, scaffold_dirs, collectvars, finishvars,
                 metricsvars>>

\* lines 396-400: the loop is over; the outcome is sent and the connection closed
SendOutcome(w) ==
  /\ worker_pc[w] = "running"
  /\ \/ Len(invoked[w]) = Len(worker_scaffold_lists[w])
     \/ ~LoopContinues(created_files[w])
  /\ sent' = [sent EXCEPT ![ParentConnection(w)] = Append(@, WorkerOutcome(created_files[w]))]
  /\ conn_closed' = [conn_closed EXCEPT ![ParentConnection(w)] = TRUE]
  /\ first_reporter' = IF first_reporter = -1 THEN w ELSE first_reporter
  /\ worker_pc' = [worker_pc EXCEPT ![w] = "closed"]
  /\ UNCHANGED <<in_args, header, parallel_processes, pc, exit_status, raised, planvars,
                 created_files, invoked, scaffold_dirs, collectvars, finishvars, metricsvars>>

\* ------------------------------------------------------------ collector
\* line 165: the connections are read in the order of the worker indices
NextConnection == Min({w \in Workers : recv_count[w] = 0})

FirstReceiveEndsLoop(counts, r) == TRUE

\* line 165: the loop ends with the last of the connections
LastConnection(counts, r) == \A w \in Workers \ {r} : counts[w] > 0

\* lines 165-166: one r_c.recv() and the extend() of its result. extend(None) raises
\* TypeError, which nothing catches
Receive ==
  /\ pc = "collecting"
  /\ LET r == NextConnection
     IN /\ Len(sent[r]) > recv_count[r]
        /\ recv_count' = [recv_count EXCEPT ![r] = @ + 1]
        /\ LET outcome == sent[r][recv_count[r] + 1]
           IN IF outcome.kind = "None"
              THEN /\ pc' = "failed"
                   /\ exit_status' = ExitStatusOf("TypeError")
                   /\ raised' = "TypeError"
                   /\ UNCHANGED received_scaffold_files
              ELSE /\ received_scaffold_files' = received_scaffold_files \o outcome.items
                   /\ pc' = IF LastConnection(recv_count, r) THEN "check" ELSE "collecting"
                   /\ UNCHANGED <<exit_status, raised>>
  /\ UNCHANGED <<in_args, header, parallel_processes, planvars, workervars, reported_failures,
                 finishvars, metricsvars>>

\* lines 169-173: the check for None and the unzip of the received tuples;
\* zip(*[]) yields nothing to unpack: ValueError
CheckResults ==
  /\ pc = "check"
  /\ IF NoneEntry \in Range(received_scaffold_files)
     THEN /\ reported_failures' =
               Cardinality({i \in 1..Len(received_scaffold_files) :
                              received_scaffold_files[i] = NoneEntry})
          /\ pc' = "failed"
          /\ exit_status' = ExitStatusOf("exit: scaffold marking failed")
          /\ raised' = "exit: scaffold marking failed"
     ELSE IF received_scaffold_files = <<>>
     THEN /\ pc' = "failed"
          /\ exit_status' = ExitStatusOf("ValueError: unpack")
          /\ raised' = "ValueError: unpack"
          /\ UNCHANGED reported_failures
     ELSE /\ pc' = "move_metrics"
          /\ UNCHANGED <<exit_status, raised, reported_failures>>
  /\ UNCHANGED <<in_args, header, parallel_processes, planvars, workervars,
                 received_scaffold_files, recv_count, finishvars, metricsvars>>

ReceivedBamPaths == [i \in 1..Len(received_scaffold_files) |-> received_scaffold_files[i].bam]

ScaffoldMetricsArtifact(path) == [kind |-> "scaffold_metrics", name |-> path.name]

\* lines 176-191: every scaffold metrics file is moved into
\* output_dir/{stem}_scaffold_metrics
MoveScaffoldMetrics ==
  /\ pc = "move_metrics"
  /\ output_dir' = output_dir \cup
       {ScaffoldMetricsArtifact(received_scaffold_files[i].metrics)
          : i \in 1..Len(received_scaffold_files)}
  /\ pc' = "order"
  /\ UNCHANGED <<in_args, header, parallel_processes, exit_status, raised, planvars, workervars,
                 collectvars, ordered_scaffold_paths, concat_rc, index_rc, rsync_rc,
                 local_files, metricsvars>>

\* line 193: the scaffold of a path is what follows the last '-' of its stem
ReceivedOrder(paths) == [i \in 1..Len(paths) |-> SplitLast(PathStem(paths[i].name), "-")]

\* list.index raises ValueError for a value that is not in the list
IndexRaises(list, x) == x \notin Range(list)

ListIndex(list, x) == Min({i \in 1..Len(list) : list[i] = x})

AsReceived(paths, names) == paths

\* lines 194-195
OrderedScaffoldPaths(paths, names) ==
  [i \in 1..Len(names) |-> paths[ListIndex(ReceivedOrder(paths), names[i])]]

\* lines 193-195
OrderPaths ==
  /\ pc = "order"
  /\ IF \E i \in 1..Len(reference_names) :
          IndexRaises(ReceivedOrder(ReceivedBamPaths), reference_names[i])
     THEN /\ pc' = "failed"
          /\ exit_status' = ExitStatusOf("ValueError: index")
          /\ raised' = "ValueError: index"
          /\ UNCHANGED ordered_scaffold_paths
     ELSE /\ ordered_scaffold_paths' = OrderedScaffoldPaths(ReceivedBamPaths, reference_names)
          /\ pc' = "concat"
          /\ UNCHANGED <<exit_status, raised>>
  /\ UNCHANGED <<in_args, header, parallel_processes, planvars, workervars, collectvars,
                 concat_rc, index_rc, rsync_rc, local_files, output_dir, metricsvars>>

Artifact(kind) == [kind |-> kind, name |-> <<>>]

ConcatenateThenCleanup ==
  /\ pc = "concat"
  /\ scaffold_dirs' = {}
  /\ \E rc \in ReturnCodes :
       /\ concat_rc' = rc
       /\ IF ReturnCodeOk(rc)
          THEN /\ local_files' = local_files \cup {Artifact("bam")}
               /\ pc' = "index"
               /\ UNCHANGED <<exit_status, raised>>
          ELSE /\ pc' = "failed"
               /\ exit_status' = ExitStatusOf("exit: concatenation")
               /\ raised' = "exit: concatenation"
               /\ UNCHANGED local_files
  /\ UNCHANGED <<in_args, header, parallel_processes, planvars, worker_pc, created_files,
                 invoked, sent, conn_closed, first_reporter, collectvars,
                 ordered_scaffold_paths, index_rc, rsync_rc, output_dir, metricsvars>>

\* lines 197-203: samtools cat of the ordered paths
Concatenate ==
  /\ pc = "concat"
  /\ \E rc \in ReturnCodes :
       /\ concat_rc' = rc
       /\ IF ReturnCodeOk(rc)
          THEN /\ local_files' = local_files \cup {Artifact("bam")}
               /\ pc' = "index"
               /\ UNCHANGED <<exit_status, raised>>
          ELSE /\ pc' = "failed"
               /\ exit_status' = ExitStatusOf("exit: concatenation")
               /\ raised' = "exit: concatenation"
               /\ UNCHANGED local_files
  /\ UNCHANGED <<in_args, header, parallel_processes, planvars, workervars, collectvars,
                 ordered_scaffold_paths, index_rc, rsync_rc, output_dir, metricsvars>>

\* lines 205-222: the scaffold directories are removed, the concatenated BAM is indexed
CleanupAndIndex ==
  /\ pc = "index"
  /\ scaffold_dirs' = scaffold_dirs \ {ReceivedBamPaths[i].dir : i \in 1..Len(ReceivedBamPaths)}
  /\ \E rc \in ReturnCodes :
       /\ index_rc' = rc
       /\ IF ReturnCodeOk(rc)
          THEN /\ local_files' = local_files \cup {Artifact("bai")}
               /\ pc' = "relocate"
               /\ UNCHANGED <<exit_status, raised>>
          ELSE /\ pc' = "failed"
               /\ exit_status' = ExitStatusOf("exit: indexing")
               /\ raised' = "exit: indexing"
               /\ UNCHANGED local_files
  /\ UNCHANGED <<in_args, header, parallel_processes, planvars, worker_pc, created_files,
                 invoked, sent, conn_closed, first_reporter, collectvars,
                 ordered_scaffold_paths, concat_rc, rsync_rc, output_dir, metricsvars>>

RelocateThenUnlink ==
  /\ pc = "relocate"
  /\ local_files' = {}
  /\ \E rc \in ReturnCodes :
       /\ rsync_rc' = rc
       /\ IF ReturnCodeOk(rc)
          THEN /\ output_dir' = output_dir \cup local_files
               /\ pc' = "wait_metrics"
               /\ UNCHANGED <<exit_status, raised>>
          ELSE /\ \E copied \in SUBSET local_files : output_dir' = output_dir \cup copied
               /\ pc' = "failed"
               /\ exit_status' = ExitStatusOf("exit: rsync")
               /\ raised' = "exit: rsync"
  /\ UNCHANGED <<in_args, header, parallel_processes, planvars, workervars, collectvars,
                 ordered_scaffold_paths, concat_rc, index_rc, metricsvars>>

\* lines 223-247: rsync of the concatenated BAM and its index into the output
\* directory; a failing rsync may have copied any part of them
Relocate ==
  /\ pc = "relocate"
  /\ \E rc \in ReturnCodes :
       /\ rsync_rc' = rc
       /\ IF ReturnCodeOk(rc)
          THEN /\ output_dir' = output_dir \cup local_files
               /\ local_files' = {}
               /\ pc' = "wait_metrics"
               /\ UNCHANGED <<exit_status, raised>>
          ELSE /\ \E copied \in SUBSET local_files : output_dir' = output_dir \cup copied
               /\ pc' = "failed"
               /\ exit_status' = ExitStatusOf("exit: rsync")
               /\ raised' = "exit: rsync"
               /\ UNCHANGED local_files
  /\ UNCHANGED <<in_args, header, parallel_processes, planvars, workervars, collectvars,
                 ordered_scaffold_paths, concat_rc, index_rc, metricsvars>>

\* ------------------------------------------------------------ insert size metrics
\* lines 250-279, 471: the process started by Popen runs beside the duplicate marking
\* and exits on its own with a return code; nothing reads its state before the poll()
\* of line 407, so its exit is placed at the steps from the collected results onwards
\* and at every step of the waiting loop
MetricsExitPoints ==
  {"check", "move_metrics", "order", "concat", "index", "relocate", "wait_metrics",
   "sleeping"}

InsertMetricsExits ==
  /\ insert_proc = "running"
  /\ pc \in MetricsExitPoints
  /\ \E status \in {"exited0", "exited1"} : insert_proc' = status
  /\ UNCHANGED <<in_args, header, parallel_processes, pc, exit_status, raised, wait_time,
                 planvars, workervars, collectvars, finishvars>>

\* line 407: while process_handle.poll() is None
PollInsertMetrics ==
  /\ pc = "wait_metrics"
  /\ pc' = IF insert_proc = "running" THEN "sleeping" ELSE "metrics_finished"
  /\ UNCHANGED <<in_args, header, parallel_processes, exit_status, raised, planvars, workervars,
                 collectvars, finishvars, metricsvars>>

WaitCapExceeded(seconds) == seconds \div SecondsPerMinute > MaxWaitMinutes

\* line 413: wait_time // 60 >= max_wait_minutes
WaitCapReached(seconds) == seconds \div SecondsPerMinute >= MaxWaitMinutes

\* lines 414-415: terminate() and wait(); a process that has exited keeps its state
Terminated(proc) == IF proc = "running" THEN "terminated" ELSE proc

\* lines 408-423: the sleep, the waited time and the check of the cap, with no poll()
\* between the sleep and the check
SleepAndCheckCap ==
  /\ pc = "sleeping"
  /\ wait_time' = wait_time + SleepSeconds
  /\ IF WaitCapReached(wait_time + SleepSeconds)
     THEN /\ insert_proc' = Terminated(insert_proc)
          /\ pc' = "failed"
          /\ exit_status' = ExitStatusOf("TimeoutError")
          /\ raised' = "TimeoutError"
     ELSE /\ pc' = "wait_metrics"
          /\ UNCHANGED <<insert_proc, exit_status, raised>>
  /\ UNCHANGED <<in_args, header, parallel_processes, planvars, workervars, collectvars, finishvars>>

FinishInsertMetricsUnchecked ==
  /\ pc = "metrics_finished"
  /\ pc' = "rsync_results"
  /\ UNCHANGED <<in_args, header, parallel_processes, exit_status, raised, planvars, workervars,
                 collectvars, finishvars, metricsvars>>

\* lines 424-447: the return code is checked, the metrics files are moved inside the
\* temporary directory
FinishInsertMetrics ==
  /\ pc = "metrics_finished"
  /\ IF insert_proc = "exited0"
     THEN /\ pc' = "rsync_results"
          /\ UNCHANGED <<exit_status, raised>>
     ELSE /\ pc' = "failed"
          /\ exit_status' = ExitStatusOf("exit: insert sizes")
          /\ raised' = "exit: insert sizes"
  /\ UNCHANGED <<in_args, header, parallel_processes, planvars, workervars, collectvars,
                 finishvars, metricsvars>>

\* lines 282-296: the temporary directory is synchronized into the output directory
RsyncResults ==
  /\ pc = "rsync_results"
  /\ \E rc \in ReturnCodes :
       IF ReturnCodeOk(rc)
       THEN /\ output_dir' = output_dir \cup {Artifact("insert_sizes")}
            /\ pc' = "done"
            /\ exit_status' = 0
            /\ UNCHANGED raised
       ELSE /\ \E copied \in SUBSET {Artifact("insert_sizes")} :
                 output_dir' = output_dir \cup copied
            /\ pc' = "failed"
            /\ exit_status' = ExitStatusOf("exit: rsync results")
            /\ raised' = "exit: rsync results"
  /\ UNCHANGED <<in_args, header, parallel_processes, planvars, workervars, collectvars,
                 ordered_scaffold_paths, concat_rc, index_rc, rsync_rc, local_files,
                 metricsvars>>

\* ------------------------------------------------------------ specifications
Next ==
  \/ StartInsertMetrics
  \/ MateFixing
  \/ ReadCatalog
  \/ PlanStep
  \/ SpawnWorkers
  \/ \E w \in Workers : MarkScaffold(w)
  \/ \E w \in Workers : SendOutcome(w)
  \/ Receive
  \/ CheckResults
  \/ MoveScaffoldMetrics
  \/ OrderPaths
  \/ Concatenate
  \/ CleanupAndIndex
  \/ Relocate
  \/ InsertMetricsExits
  \/ PollInsertMetrics
  \/ SleepAndCheckCap
  \/ FinishInsertMetrics
  \/ RsyncResults

\* the whole program, from the start of __main__
Spec == Init /\ [][Next]_vars

\* the steps of the orchestrating process
Orchestrator ==
  \/ StartInsertMetrics \/ MateFixing \/ ReadCatalog \/ PlanStep \/ SpawnWorkers
  \/ Receive \/ CheckResults \/ MoveScaffoldMetrics \/ OrderPaths \/ Concatenate
  \/ CleanupAndIndex \/ Relocate \/ PollInsertMetrics \/ SleepAndCheckCap
  \/ FinishInsertMetrics \/ RsyncResults

\* a step of one of the worker processes
WorkerStep == \E w \in Workers : MarkScaffold(w) \/ SendOutcome(w)

\* headers for the runs with scheduling: no sequence, only a zero-length one, one,
\* two (plain names, or HLA-A first), three with a longest one, and one dropped entry
TerminationHeaders ==
  {<<>>, Header(1, <<0>>, 0), Header(1, <<1>>, 0), Header(2, <<1, 1>>, 0),
   Header(2, <<1, 1>>, 1), Header(2, <<0, 1>>, 0), Header(3, <<2, 1, 1>>, 0)}

\* the start of __main__ on one of these headers
InitFair ==
  /\ header \in TerminationHeaders
  /\ in_args \in 1..MaxRequested
  /\ parallel_processes = ClampProcesses(in_args)
  /\ pc = "main"
  /\ insert_proc = "none"
  /\ reference_names = <<>>
  /\ ref_dict = <<>>
  /\ optimal_split_length = 0
  /\ descending_length_tuples = <<>>
  /\ scaff_idx = 0
  /\ worker_scaffold_lists = [w \in Workers |-> <<>>]
  /\ worker_scaffolds_cumulative_sums = [w \in Workers |-> 0]
  /\ NoWorkerState

\* the whole program with its scheduling: the orchestrating process and the started
\* workers are operating system processes that keep running while they can take a
\* step, and every command they run returns; the metrics process need not exit
FairSpec == InitFair /\ [][Next]_vars /\ WF_vars(Orchestrator) /\ WF_vars(WorkerStep)

\* the partition planner alone (lines 133-148), for every catalog and worker count
PlanSpec == InitPlan /\ [][PlanStep]_vars

\* the clamp of the worker count alone (lines 456-464), for every requested count
ClampSpec == InitClamp /\ [][ClampWorkers]_vars

\* ------------------------------------------------------------ claims: the planner
\* the loop of lines 140-148 is over
PlanComplete == pc = "spawn" \/ \E w \in Workers : worker_pc[w] # "unstarted"

\* the places <<worker, position>> of the plan that hold a scaffold
PlacesOf(name) ==
  {p \in Workers \X (1..Len(reference_names)) :
     p[2] <= Len(worker_scaffold_lists[p[1]]) /\ worker_scaffold_lists[p[1]][p[2]] = name}

RECURSIVE SumOver(_, _)
SumOver(f, S) ==
  IF S = {} THEN 0 ELSE LET x == CHOOSE y \in S : TRUE IN f[x] + SumOver(f, S \ {x})

\* the length of the catalog as the header declares it
CatalogTotal == SumLens(ParsedEntries(header))

CatalogTarget == CatalogTotal \div processes

CatalogMaxLength ==
  IF ParsedEntries(header) = <<>> THEN 0
  ELSE Max({ParsedEntries(header)[i].len : i \in 1..Len(ParsedEntries(header))})

\* the base pairs a worker's list adds up to
ListLength(w) ==
  SumOver([i \in 1..Len(worker_scaffold_lists[w]) |-> ref_dict[worker_scaffold_lists[w][i]]],
          1..Len(worker_scaffold_lists[w]))

\* C1: once the plan is built, every scaffold of the catalog is in exactly one place
\* of exactly one worker list, and the lists hold nothing but catalog scaffolds, so
\* the lists together are the catalog; while the plan is built no scaffold is
\* placed twice.
C1_EveryScaffoldOnce ==
  /\ \A i \in 1..Len(reference_names) :
       Cardinality(PlacesOf(reference_names[i])) <= 1
  /\ \A w \in Workers : Range(worker_scaffold_lists[w]) \subseteq Range(reference_names)
  /\ PlanComplete =>
       /\ \A i \in 1..Len(reference_names) : Cardinality(PlacesOf(reference_names[i])) = 1
       /\ SumOver([w \in Workers |-> Len(worker_scaffold_lists[w])], Workers)
            = Len(reference_names)

\* C1 witness: a finished plan of several workers, one of them with two scaffolds
C1_Witness ==
  /\ PlanComplete
  /\ processes >= 2
  /\ Len(reference_names) >= 3
  /\ \E w \in Workers : Len(worker_scaffold_lists[w]) >= 2
  /\ \E w \in Workers : Len(worker_scaffold_lists[w]) = 1

\* C2: once the plan is built, no worker's assigned length exceeds
\* total // N + the longest scaffold, and the running sums are the lists' lengths.
C2_BoundedImbalance ==
  PlanComplete =>
    \A w \in Workers :
      /\ ListLength(w) <= CatalogTarget + CatalogMaxLength
      /\ worker_scaffolds_cumulative_sums[w] = ListLength(w)

\* C2 witness: a finished plan in which a worker with two scaffolds or more is
\* above the target
C2_Witness ==
  /\ PlanComplete
  /\ \E w \in Workers :
       /\ Len(worker_scaffold_lists[w]) >= 2
       /\ ListLength(w) > CatalogTarget

\* the worker a scaffold was given to
AssignedWorker(name) == CHOOSE w \in Workers : name \in Range(worker_scaffold_lists[w])

\* the running total of worker w when the j-th scaffold of the walk is placed
RunningBefore(w, j) ==
  SumOver([i \in 1..Len(descending_length_tuples) |-> descending_length_tuples[i].len],
          {i \in 1..(j - 1) : AssignedWorker(descending_length_tuples[i].name) = w})

CatalogPosition(name) == CHOOSE i \in 1..Len(reference_names) : reference_names[i] = name

\* the walk holds the catalog in descending length, equal lengths in catalog order
WalkIsDescending ==
  /\ Len(descending_length_tuples) = Len(reference_names)
  /\ {descending_length_tuples[i].name : i \in 1..Len(descending_length_tuples)}
       = Range(reference_names)
  /\ \A i, j \in 1..Len(descending_length_tuples) :
       i < j =>
         /\ descending_length_tuples[i].len >= descending_length_tuples[j].len
         /\ descending_length_tuples[i].len = descending_length_tuples[j].len
              => CatalogPosition(descending_length_tuples[i].name)
                   < CatalogPosition(descending_length_tuples[j].name)

\* the j-th scaffold of the walk (counted from 1) is where the two-phase rule puts it
PlacedByRule(j) ==
  LET t == descending_length_tuples[j]
      w == AssignedWorker(t.name)
      c == (j - 1) % processes
  IN IF RunningBefore(c, j) + t.len < CatalogTarget
     THEN w = c
     ELSE /\ \A v \in Workers : RunningBefore(w, j) <= RunningBefore(v, j)
          /\ \A v \in Workers : v < w => RunningBefore(v, j) > RunningBefore(w, j)

\* C3: the scaffolds are walked in descending length; each placed scaffold is with
\* worker i mod N when that worker's running total plus its length is below the
\* target, and otherwise with the first worker of smallest running total; each list
\* is in the order of the walk; lengths [100, 90, 60, 50] with two workers give
\* worker 0 the first and fourth scaffold, worker 1 the second and third, 150 each.
C3_TwoPhaseRule ==
  (pc = "planning" \/ PlanComplete) =>
    /\ WalkIsDescending
    /\ \A j \in 1..scaff_idx : PlacedByRule(j)
    /\ \A w \in Workers : \A a, b \in 1..Len(worker_scaffold_lists[w]) :
         a < b =>
           \E i, j \in 1..scaff_idx :
             /\ i < j
             /\ descending_length_tuples[i].name = worker_scaffold_lists[w][a]
             /\ descending_length_tuples[j].name = worker_scaffold_lists[w][b]
    /\ (header = ExampleHeader /\ processes = 2 /\ PlanComplete) =>
         /\ worker_scaffold_lists[0] = <<PlainName(1), PlainName(4)>>
         /\ worker_scaffold_lists[1] = <<PlainName(2), PlainName(3)>>
         /\ worker_scaffolds_cumulative_sums[0] = 150
         /\ worker_scaffolds_cumulative_sums[1] = 150

\* C3 witness: the plan of the example is built
C3_Witness ==
  /\ header = ExampleHeader
  /\ processes = 2
  /\ PlanComplete
  /\ worker_scaffold_lists[0] = <<PlainName(1), PlainName(4)>>

\* ------------------------------------------------------------ claims: workers, collector
\* the workers were started
Spawned == \E w \in Workers : worker_pc[w] # "unstarted"

\* the loop of lines 165-166 was left: the collector goes on to decide, or died in it
CollectionOver == Spawned /\ pc # "collecting"

\* the workers whose outcome is the failure marker
FailedWorkers == {w \in Workers : \E i \in 1..Len(sent[w]) : sent[w][i].kind = "None"}

\* C4: when a worker has reported the failure marker and the collector is through,
\* the run has ended as a partitioning failure: the count of failed workers was
\* reported, the exit status is not zero and nothing was concatenated.
C4_FailureMarkerFailsRun ==
  (CollectionOver /\ \E w \in FailedWorkers : recv_count[w] > 0) =>
    /\ pc = "failed"
    /\ exit_status > 0
    /\ raised = "exit: scaffold marking failed"
    /\ reported_failures = Cardinality(FailedWorkers)
    /\ concat_rc = -1
    /\ local_files = {}

\* every worker has sent, and sent a list
AllWorkersSucceeded ==
  \A w \in Workers : worker_pc[w] = "closed" /\ \A i \in 1..Len(sent[w]) : sent[w][i].kind = "list"

\* the catalog's paths in reference order
ReferenceOrderedPaths ==
  [i \in 1..Len(reference_names) |-> ScaffoldOutputBam(reference_names[i])]

\* C5: when all workers succeeded, every result is matched back to its catalog
\* scaffold (no ValueError of list.index), whatever the names, and the paths handed
\* to samtools cat are the catalog's, one per scaffold, in reference order.
C5_EveryResultMatched ==
  (Spawned /\ AllWorkersSucceeded /\ reference_names # <<>>) =>
    /\ raised # "ValueError: index"
    /\ pc = "concat" => ordered_scaffold_paths = ReferenceOrderedPaths

HasDashName == \E i \in 1..Len(reference_names) : "-" \in Range(reference_names[i])

RECURSIVE ListsInIndexOrder(_)
\* the entries of the workers 0..w-1, list after list
ListsInIndexOrder(w) ==
  IF w = 0 THEN <<>>
  ELSE ListsInIndexOrder(w - 1)
         \o [i \in 1..Len(worker_scaffold_lists[w - 1]) |->
               FilesEntry(worker_scaffold_lists[w - 1][i])]

\* C6: what the collector holds and what it hands to concatenation is decided by the
\* catalog and the plan alone, whatever the order in which the workers finished:
\* the received entries are the workers' lists in worker order, the concatenation
\* sequence is the catalog in reference order, and whether ordering fails depends
\* on the names only.
C6_OrderIndependent ==
  /\ pc \in {"check", "move_metrics", "order", "concat"}
       => received_scaffold_files = ListsInIndexOrder(processes)
  /\ ordered_scaffold_paths # <<>> => ordered_scaffold_paths = ReferenceOrderedPaths
  /\ pc = "concat" => ordered_scaffold_paths = ReferenceOrderedPaths /\ ~HasDashName
  /\ raised = "ValueError: index" => HasDashName

\* C6 witness: reference order chr1, chr2, chr3, one scaffold per worker, the
\* outcome of chr3 was the first to arrive, and the sequence is chr1, chr2, chr3
C6_Witness ==
  /\ pc = "concat"
  /\ processes = 3
  /\ reference_names = <<PlainName(1), PlainName(2), PlainName(3)>>
  /\ \A w \in Workers : worker_scaffold_lists[w] = <<PlainName(w + 1)>>
  /\ first_reporter = 2
  /\ ordered_scaffold_paths = <<ScaffoldOutputBam(PlainName(1)), ScaffoldOutputBam(PlainName(2)),
                                ScaffoldOutputBam(PlainName(3))>>

\* C7: when the collector is through with the connections, every worker has
\* reported and every connection was received from exactly once.
C7_OneReceivePerWorker ==
  CollectionOver =>
    \A w \in Workers : recv_count[w] = 1 /\ worker_pc[w] = "closed"

\* C8: what a worker has invoked is a prefix of its list, in list order, and every
\* invocation but the last one succeeded: nothing is invoked after a failure.
C8_ListOrderFailFast ==
  \A w \in Workers :
    /\ Len(invoked[w]) <= Len(worker_scaffold_lists[w])
    /\ invoked[w] = SubSeq(worker_scaffold_lists[w], 1, Len(invoked[w]))
    /\ Len(created_files[w]) = Len(invoked[w])
    /\ \A i \in 1..(Len(invoked[w]) - 1) : created_files[w][i] = FilesEntry(invoked[w][i])
    /\ worker_pc[w] = "unstarted" => invoked[w] = <<>>

\* C8 witness: a worker is done after its first scaffold failed and left the second
C8_Witness ==
  \E w \in Workers :
    /\ worker_pc[w] = "closed"
    /\ Len(worker_scaffold_lists[w]) >= 2
    /\ Len(invoked[w]) = 1
    /\ created_files[w] = <<NoneEntry>>

\* C9: a worker sends at most once, on its own connection, and has sent exactly once
\* when it closed it; the outcome is the failure marker when one of its scaffolds
\* failed, else the list of the results of all its scaffolds in list order.
C9_OneOutcomePerWorker ==
  \A w \in Workers :
    /\ Len(sent[w]) <= 1
    /\ worker_pc[w] = "closed" <=> Len(sent[w]) = 1
    /\ conn_closed[w] <=> Len(sent[w]) = 1
    /\ \A i \in 1..Len(sent[w]) :
         IF NoneEntry \in Range(created_files[w])
         THEN sent[w][i] = NoneOutcome
         ELSE /\ sent[w][i].kind = "list"
              /\ sent[w][i].items =
                   [j \in 1..Len(worker_scaffold_lists[w]) |->
                      FilesEntry(worker_scaffold_lists[w][j])]

\* C9 witness: one worker sent the failure marker after a first success, another a list
C9_Witness ==
  \E w, v \in Workers :
    /\ Len(created_files[w]) = 2
    /\ sent[w] = <<NoneOutcome>>
    /\ conn_closed[w]
    /\ Len(sent[v]) = 1
    /\ sent[v][1].kind = "list"
    /\ sent[v][1].items # <<>>

\* ------------------------------------------------------------ claims: output directory
\* C10 as stated: in a run in which a worker failed or samtools cat exited
\* non-zero, the output directory holds nothing of this run.
C10_NothingRelocatedOnFailure ==
  (FailedWorkers # {} \/ concat_rc > 0) => output_dir = {}

ScaffoldMetricsOfCatalog ==
  {ScaffoldMetricsArtifact(ScaffoldMetricsFile(reference_names[i])) : i \in 1..Len(reference_names)}

\* C10 amended: the concatenated BAM, its index and the insert size metrics are in
\* the output directory only after concatenation and indexing returned zero;
\* anything is there only after every worker's list was received; nothing is there
\* when a worker failed; and as long as concatenation has not succeeded, what is
\* there are scaffold metrics files of the catalog (moved before concatenation).
C10_OnlyScaffoldMetricsBeforeConcat ==
  /\ output_dir \ ScaffoldMetricsOfCatalog # {} => concat_rc = 0 /\ index_rc = 0
  /\ output_dir # {} => \A w \in Workers : recv_count[w] = 1 /\ sent[w][1].kind = "list"
  /\ FailedWorkers # {} => output_dir = {}
  /\ concat_rc # 0 => output_dir \subseteq ScaffoldMetricsOfCatalog

\* C10 witness: samtools cat exited non-zero and the scaffold metrics are in the
\* output directory
C10_Witness ==
  /\ pc = "failed"
  /\ concat_rc = 1
  /\ output_dir = ScaffoldMetricsOfCatalog
  /\ output_dir # {}

\* ------------------------------------------------------------ claims: metrics wait
InsertSizesRelocated == Artifact("insert_sizes") \in output_dir

\* the configured cap, in the seconds the waited time is counted in
WaitCapSeconds == MaxWaitMinutes * SecondsPerMinute

\* C11: once the waited time has reached the cap the run has failed with the
\* TimeoutError; then the metrics process is no longer running (it was terminated
\* unless it had exited), the exit status is non-zero, and neither the metrics
\* relocation nor the final synchronization has happened or will (the run is over).
C11_TimeoutTerminatesAndFails ==
  /\ wait_time >= WaitCapSeconds => raised = "TimeoutError"
  /\ raised = "TimeoutError" =>
       /\ pc = "failed"
       /\ exit_status > 0
       /\ insert_proc \notin {"none", "running"}
       /\ wait_time >= WaitCapSeconds
       /\ ~InsertSizesRelocated

\* C11 witness: the process was still running at the cap and has been terminated
C11_Witness ==
  /\ raised = "TimeoutError"
  /\ insert_proc = "terminated"
  /\ wait_time = WaitCapSeconds

\* C12: a TimeoutError is raised only for a process that was still running when the
\* waited time reached the cap (and so was terminated), never for one that had exited
\* by then.
C12_BoundaryFinishIsNotTimeout ==
  raised = "TimeoutError" => insert_proc = "terminated"

\* ------------------------------------------------------------ claims: stage order
\* the stages of the specification, numbered in their order, for the steps of __main__
StageRank(p) ==
  CASE p = "main" -> 0
    [] p = "mate_fixing" -> 1
    [] p \in {"read_catalog", "planning"} -> 2
    [] p = "spawn" -> 3
    [] p \in {"collecting", "check", "move_metrics", "order"} -> 4
    [] p = "concat" -> 5
    [] p = "index" -> 6
    [] p = "relocate" -> 7
    [] p \in {"wait_metrics", "sleeping", "metrics_finished"} -> 8
    [] p = "rsync_results" -> 9
    [] p = "done" -> 10

AllListsReceived ==
  \A w \in Workers : recv_count[w] = 1 /\ sent[w] # <<>> /\ sent[w][1].kind = "list"

\* what has succeeded when the run is at or past a stage
StageReached(n) == pc # "failed" /\ StageRank(pc) >= n

PreviousStagesSucceeded ==
  /\ StageReached(1) => insert_proc # "none"
  /\ StageReached(3) => /\ reference_names = ParsedNames(header)
                        /\ scaff_idx = Len(descending_length_tuples)
  /\ StageReached(4) => Spawned
  /\ StageReached(5) => AllListsReceived
  /\ StageReached(6) => concat_rc = 0
  /\ StageReached(7) => index_rc = 0
  /\ StageReached(8) => rsync_rc = 0 /\ {Artifact("bam"), Artifact("bai")} \subseteq output_dir
  /\ StageReached(9) => insert_proc = "exited0"
  /\ StageReached(10) => InsertSizesRelocated /\ exit_status = 0
  /\ ~StageReached(7) /\ pc # "failed" => rsync_rc = -1
  /\ ~StageReached(6) /\ pc # "failed" => index_rc = -1
  /\ ~StageReached(5) /\ pc # "failed" => concat_rc = -1

\* C13: every step of the run stays in its stage, moves to the next stage or fails;
\* a stage is reached only with the previous stages succeeded; the metrics process
\* is started before mate fixing; the run is done only with the metrics process
\* exited with zero and the outputs relocated.
C13_StagesInOrder ==
  /\ []PreviousStagesSucceeded
  /\ [][pc' # pc =>
          \/ pc' = "failed"
          \/ /\ pc # "failed"
             /\ StageRank(pc') \in {StageRank(pc), StageRank(pc) + 1}]_vars

\* C13 witness: a run is done after it waited for the metrics process
C13_Witness ==
  /\ pc = "done"
  /\ wait_time > 0
  /\ insert_proc = "exited0"
  /\ {Artifact("bam"), Artifact("bai"), Artifact("insert_sizes")} \subseteq output_dir

\* ------------------------------------------------------------ claims: extra workers
\* the plan is built and there are more workers than scaffolds in the catalog
MoreWorkersThanScaffolds == PlanComplete /\ processes > Len(reference_names)

OwnWorkerPerScaffold ==
  /\ \A w \in Workers : Len(worker_scaffold_lists[w]) <= 1
  /\ Cardinality({w \in Workers : worker_scaffold_lists[w] # <<>>}) = Len(reference_names)

EmptyListWorkersAreNoOps ==
  \A w \in Workers :
    worker_scaffold_lists[w] = <<>> =>
      /\ invoked[w] = <<>>
      /\ sent[w] # <<>> => sent[w] = <<ListOutcome(<<>>)>>

\* C14: with more workers than scaffolds every scaffold is alone on a worker and the
\* other workers' lists are empty; a worker with an empty list invokes nothing and
\* sends the empty list; and when all workers succeeded the collector gets through
\* to concatenation without an error, with the catalog's paths in reference order.
C14_ExtraWorkersAreNoOps ==
  MoreWorkersThanScaffolds =>
    /\ OwnWorkerPerScaffold
    /\ EmptyListWorkersAreNoOps
    /\ (AllWorkersSucceeded /\ CollectionOver) =>
         /\ raised \notin {"TypeError", "ValueError: unpack", "ValueError: index"}
         /\ pc \notin {"check", "move_metrics", "order"}
              => ordered_scaffold_paths = ReferenceOrderedPaths

\* ------------------------------------------------------------ claims: exit status
\* the failure categories of the specification, for the ways the run ends early
FailureCategory(reason) ==
  CASE reason \in {"exit: mate fixing", "exit: concatenation", "exit: indexing",
                   "exit: rsync", "exit: rsync results"} -> "ExternalToolFailure"
    [] reason \in {"TypeError", "exit: scaffold marking failed"} -> "PartitioningFailed"
    [] reason = "ValueError: index" -> "OrderingMismatch"
    [] reason = "SubprocessError" -> "CatalogUnavailable"
    [] reason = "TimeoutError" -> "MetricsTimeout"
    [] OTHER -> "uncategorized"

CategorizedFailures ==
  {"exit: mate fixing", "exit: concatenation", "exit: indexing", "exit: rsync",
   "exit: rsync results", "TypeError", "exit: scaffold marking failed",
   "ValueError: index", "SubprocessError", "TimeoutError"}

\* C15: a run that failed in one of the categories has a non-zero exit status, which
\* is the status of every failure of its category and of no failure of another one.
C15_StatusPerCategory ==
  (pc = "failed" /\ raised \in CategorizedFailures) =>
    /\ exit_status > 0
    /\ \A other \in CategorizedFailures :
         (FailureCategory(other) = FailureCategory(raised))
           <=> (ExitStatusOf(other) = exit_status)

FinalOutput == {Artifact("bam"), Artifact("bai")}

\* a command the orchestrator or a worker ran has returned non-zero
ToolReturnedNonZero ==
  \/ concat_rc > 0 \/ index_rc > 0 \/ rsync_rc > 0
  \/ FailedWorkers # {}
  \/ raised \in {"exit: mate fixing", "SubprocessError", "exit: insert sizes",
                 "exit: rsync results"}

\* C17: once a command has returned non-zero the orchestrator is in no later stage
\* (it has failed with a non-zero exit status, or is still collecting the workers'
\* outcomes and fails from there), a failed command was not run again, and no step
\* taken after the metrics process has exited non-zero puts the final output into
\* the output directory.
C17_NonZeroIsImmediatelyFatal ==
  /\ [](ToolReturnedNonZero =>
          \/ pc = "failed" /\ exit_status > 0
          \/ pc = "collecting" /\ FailedWorkers # {})
  /\ [](\A w \in Workers : \A i, j \in 1..Len(invoked[w]) :
          invoked[w][i] = invoked[w][j] => i = j)
  /\ [][insert_proc = "exited1" =>
          FinalOutput \cap output_dir' \subseteq output_dir]_vars

\* ------------------------------------------------------------ claims: final output
\* every worker has run all of its list, sent its list and closed, and the collector
\* has received every list
EveryWorkerReportedSuccess ==
  \A w \in Workers :
    /\ worker_pc[w] = "closed"
    /\ invoked[w] = worker_scaffold_lists[w]
    /\ sent[w] = <<ListOutcome(created_files[w])>>
    /\ recv_count[w] = 1

\* C18: the output BAM or its index is in the output directory only when every worker
\* has reported success, the collector is past its check of the results, and the
\* orchestrator has run the relocation command after concatenation and indexing; as
\* long as a worker is running or the collector is collecting or checking, nothing
\* of the final output is there (so no step of a worker puts it there).
C18_FinalOutputOnlyAfterAllSucceeded ==
  /\ FinalOutput \cap output_dir # {} =>
       /\ EveryWorkerReportedSuccess
       /\ NoneEntry \notin Range(received_scaffold_files)
       /\ concat_rc = 0 /\ index_rc = 0 /\ rsync_rc >= 0
       /\ pc \notin {"collecting", "check", "move_metrics", "order", "concat", "index",
                    "relocate"}
  /\ (\E w \in Workers : worker_pc[w] = "running") => FinalOutput \cap output_dir = {}

\* C18 witness: three workers have reported, and the output BAM and its index are in
\* the output directory
C18_Witness ==
  /\ processes = 3
  /\ Len(reference_names) = 3
  /\ EveryWorkerReportedSuccess
  /\ FinalOutput \subseteq output_dir

\* ------------------------------------------------------------ claims: cleanup
\* the per-scaffold directories the workers have created so far
CreatedScaffoldDirs ==
  UNION {{ScaffoldDir(invoked[w][i]) : i \in 1..Len(invoked[w])} : w \in Workers}

\* C19: as long as concatenation has not returned zero (it has not run, or it failed),
\* every per-scaffold directory created so far exists, whatever the workers did and
\* however the run failed; a created directory is gone only after concatenation
\* returned zero.
C19_ScaffoldDirsKeptUntilConcatenated ==
  /\ scaffold_dirs \subseteq CreatedScaffoldDirs
  /\ concat_rc # 0 => scaffold_dirs = CreatedScaffoldDirs
  /\ (pc = "failed" /\ raised \in {"TypeError", "exit: scaffold marking failed",
                                   "ValueError: unpack", "ValueError: index",
                                   "exit: concatenation"})
       => scaffold_dirs = CreatedScaffoldDirs

\* C19 witness: samtools cat returned non-zero and the directories of all three
\* scaffolds are in place
C19_Witness ==
  /\ pc = "failed"
  /\ concat_rc = 1
  /\ Cardinality(scaffold_dirs) = 3
  /\ scaffold_dirs = CreatedScaffoldDirs

\* C20: the local concatenated BAM and its index are both present from the indexing
\* on until the relocation command has returned zero; after a relocation that
\* returned non-zero the run is over with both still present; after one that
\* returned zero they are in the output directory and the local copies are gone.
C20_LocalCopiesMoved ==
  /\ (index_rc = 0 /\ rsync_rc # 0) => local_files = FinalOutput
  /\ rsync_rc > 0 => pc = "failed" /\ local_files = FinalOutput
  /\ rsync_rc = 0 => local_files = {} /\ FinalOutput \subseteq output_dir

\* C20 witness: the relocation returned non-zero after it had copied the BAM, and
\* both local copies are present in the failed run
C20_Witness ==
  /\ pc = "failed"
  /\ rsync_rc = 1
  /\ Artifact("bam") \in output_dir
  /\ local_files = FinalOutput

\* ------------------------------------------------------------ claims: planning fails
\* the header command returned zero and the header holds no sequence entry
EmptyCatalogRead ==
  /\ header = <<>>
  /\ pc \notin {"main", "mate_fixing", "read_catalog"}
  /\ raised \notin {"exit: mate fixing", "SubprocessError"}

\* C21: a run whose header holds no sequence entry has failed as CatalogUnavailable
\* once the header was read, with no worker started, and a failure to get the
\* catalog (the one way planning fails, the worker count being positive) leaves no
\* worker started.
C21_PlanningFailsBeforeSpawn ==
  /\ EmptyCatalogRead => pc = "failed" /\ raised = "SubprocessError" /\ ~Spawned
  /\ processes > 0
  /\ raised = "SubprocessError" => ~Spawned /\ recv_count = [w \in Workers |-> 0]

\* ------------------------------------------------------------ claims: catalog
\* the header command returned zero and the catalog was built from its output
CatalogRead ==
  /\ pc \notin {"main", "mate_fixing", "read_catalog"}
  /\ raised \notin {"exit: mate fixing", "SubprocessError"}

\* C22: the catalog that planning and ordering use holds every entry of the header,
\* those of length 0 included, once and in the header's order, with its length.
C22_CatalogIsTheHeader ==
  CatalogRead =>
    /\ reference_names = [i \in 1..Len(header) |-> header[i].name]
    /\ \A i \in 1..Len(header) :
         /\ header[i].name \in DOMAIN ref_dict
         /\ ref_dict[header[i].name] = header[i].len
    /\ Len(descending_length_tuples) = Len(header)

\* ------------------------------------------------------------ claims: determinism
CatalogLength(i) == ref_dict[reference_names[i]]

\* the place of the i-th catalog entry in a walk by descending length in which
\* equal lengths keep the catalog order
WalkRank(i) ==
  1 + Cardinality({k \in 1..Len(reference_names) :
                     \/ CatalogLength(k) > CatalogLength(i)
                     \/ CatalogLength(k) = CatalogLength(i) /\ k < i})

DeterminedWalk ==
  [r \in 1..Len(reference_names) |->
     LET i == CHOOSE k \in 1..Len(reference_names) : WalkRank(k) = r
     IN [name |-> reference_names[i], len |-> CatalogLength(i)]]

RECURSIVE DeterminedPlan(_)
\* the lists and running totals after j scaffolds of that walk, a tie for the
\* smallest running total going to the lowest worker index
DeterminedPlan(j) ==
  IF j = 0
  THEN [lists |-> [w \in Workers |-> <<>>], sums |-> [w \in Workers |-> 0]]
  ELSE LET p == DeterminedPlan(j - 1)
           t == DeterminedWalk[j]
           c == (j - 1) % processes
           least == Min({p.sums[v] : v \in Workers})
           w == IF p.sums[c] + t.len < CatalogTarget THEN c
                ELSE Min({v \in Workers : p.sums[v] = least})
       IN [lists |-> [p.lists EXCEPT ![w] = Append(@, t.name)],
           sums |-> [p.sums EXCEPT ![w] = @ + t.len]]

\* C23: the walk and the worker lists are a function of the catalog and N alone:
\* the walk is the catalog by descending length with equal lengths in catalog
\* order, and after every step the lists are those this walk gives when a tie for
\* the smallest running total goes to the lowest worker index; so two plannings of
\* one catalog with one N give the same lists in the same order.
C23_PlanIsDetermined ==
  (pc = "planning" \/ PlanComplete) =>
    /\ descending_length_tuples = DeterminedWalk
    /\ worker_scaffold_lists = DeterminedPlan(scaff_idx).lists
    /\ worker_scaffolds_cumulative_sums = DeterminedPlan(scaff_idx).sums

\* C23 witness: three scaffolds of one length and two workers: both ties occurred,
\* and the plan is chr1, chr3 for worker 0 and chr2 for worker 1
C23_Witness ==
  /\ PlanComplete
  /\ processes = 2
  /\ reference_names = <<PlainName(1), PlainName(2), PlainName(3)>>
  /\ \A i \in 1..3 : CatalogLength(i) = 1
  /\ worker_scaffold_lists[0] = <<PlainName(1), PlainName(3)>>
  /\ worker_scaffold_lists[1] = <<PlainName(2)>>

\* ------------------------------------------------------------ claims: termination
\* C24: every run of the scheduled program comes to an end, done or failed.
C24_EveryRunTerminates == <>(pc \in {"done", "failed"})

\* C24 witness: a run has ended after the last worker was the first to report, one
\* worker sent an empty list and another the failure marker
C24_Witness ==
  /\ pc \in {"done", "failed"}
  /\ first_reporter = processes - 1
  /\ \E w \in Workers : sent[w] = <<ListOutcome(<<>>)>>
  /\ \E w \in Workers : sent[w] = <<NoneOutcome>>

====
